---- MODULE Spec2Model ----
(***************************************************************************)
(* OncoVector: the diagnostic orchestration pipeline of App.tsx.           *)
(*                                                                         *)
(* The model follows the App component: its React state (step,             *)
(* patientData, analysisResult, error, systemHealth, processingStage), the *)
(* user handlers that the rendered phase exposes, and the async function   *)
(* runAnalysis, cut at its suspension points (every await).  Each action   *)
(* is the code that runs between two suspension points; the state updater  *)
(* calls it makes are applied in the order the code queues them.           *)
(*                                                                         *)
(* Text is modelled as a sequence of tokens (<<>> is the empty string, the *)
(* token " " is white space).  A nullable value is <<>> (null) or <<v>>.   *)
(***************************************************************************)
EXTENDS Integers, Sequences, FiniteSets, TLC

VARIABLES
    step,             \* 'input' | 'analyzing' | 'results'
    patientData,      \* the user-entered PatientData
    analysisResult,   \* AnalysisResult | null
    error,            \* string | null
    systemHealth,     \* any[]
    processingStage,  \* { step, label, progress, log }
    pc,               \* suspension point of the runAnalysis call in flight
    runData,          \* patientData as captured by the runAnalysis closure
    anatomyContext,   \* local of runAnalysis
    query,            \* local of runAnalysis
    similarCases,     \* local of runAnalysis
    result,           \* local of runAnalysis (nullable)
    pending,          \* collaborator promises not yet settled
    events,           \* history: collaborator calls/settlements of this run
    psTrace,          \* history: processingStage after every write of this run
    psAtCall,         \* history: processingStage when the last call was made
    consoleErrors,    \* history: console.error calls made by this run
    lastEvent,        \* history: the handler or continuation that ran last
    vectorDb          \* mockVectorDb: the registry, the last query and its outcome

vars == <<step, patientData, analysisResult, error, systemHealth,
          processingStage, pc, runData, anatomyContext, query, similarCases,
          result, pending, events, psTrace, psAtCall, consoleErrors,
          lastEvent, vectorDb>>

----------------------------------------------------------------------------
(* Bounds of the model *)

MaxImages == 2
MaxCases == 2
MaxRegistry == 7

----------------------------------------------------------------------------
(* Values *)

Null == <<>>
Some(v) == <<v>>
IsNull(o) == o = <<>>

EmptyText == <<>>

Ages == {EmptyText, <<"55">>}
Genders == {"Female", "Male"}
SymptomTexts == {EmptyText, <<" ">>, <<"mole">>}

\* FileList of the file input: 0..MaxImages files
FileLists == {[i \in 1..n |-> i] : n \in 0..MaxImages}

\* outcomes of the collaborators
AnatomyLabels == {EmptyText, <<"Lung">>}
HealthReports == {<<"NIH:online">>}
CaseLists == {[i \in 1..n |-> i] : n \in 0..MaxCases}
Reports(data, cases) == {[riskScore |-> 80, matchedCases |-> cases]}

ErrorOf(msg) == [isError |-> TRUE, message |-> msg]
NonError == [isError |-> FALSE, message |-> EmptyText]
\* the retriever's failure on an empty registry
EmptyRegistryError == ErrorOf(<<"EmptyRegistryError">>)
Rejections(fn) ==
    {IF fn = "retrieveSimilarCases" THEN EmptyRegistryError
                                    ELSE ErrorOf(<<fn, " failed">>),
     NonError}

InitialPatientData ==
    [age |-> EmptyText, gender |-> "Female", symptoms |-> EmptyText,
     history |-> EmptyText, images |-> <<>>]

InitialProcessingStage ==
    [step |-> "vision", label |-> <<"Initializing...">>, progress |-> 0,
     log |-> <<>>]

----------------------------------------------------------------------------
(* Pure helpers *)

\* Array.prototype.slice(-n)
SliceLast(s, n) ==
    IF Len(s) <= n THEN s ELSE SubSeq(s, Len(s) - n + 1, Len(s))

RECURSIVE TrimStart(_)
TrimStart(s) ==
    IF s # <<>> /\ Head(s) = " " THEN TrimStart(Tail(s)) ELSE s

RECURSIVE TrimEnd(_)
TrimEnd(s) ==
    IF s # <<>> /\ s[Len(s)] = " " THEN TrimEnd(SubSeq(s, 1, Len(s) - 1)) ELSE s

\* String.prototype.trim
Trim(s) == TrimEnd(TrimStart(s))

\* truthiness of a string
Truthy(s) == Len(s) > 0

hasSymptoms(data) == Truthy(data.symptoms) /\ Len(Trim(data.symptoms)) > 0
hasImages(data) == Len(data.images) > 0

AnatomyPrefix(anatomy) == <<"[PATIENT IMAGING ANATOMY: ">> \o anatomy \o <<"] ">>
DefaultQuery == <<"visual anomaly suspected malignancy">>

BuildQueryTrimmed(data, anatomy) ==
    LET q == IF Truthy(data.symptoms) THEN Trim(data.symptoms) ELSE EmptyText
    IN  IF Truthy(anatomy) THEN AnatomyPrefix(anatomy) \o q
        ELSE IF ~ Truthy(Trim(q)) THEN DefaultQuery
        ELSE q

BuildQueryDefaultFirst(data, anatomy) ==
    LET q == IF Truthy(Trim(data.symptoms)) THEN data.symptoms ELSE DefaultQuery
    IN  IF Truthy(anatomy) THEN AnatomyPrefix(anatomy) \o q ELSE q

BuildQueryNoDefault(data, anatomy) ==
    LET q == IF Truthy(data.symptoms) THEN data.symptoms ELSE EmptyText
    IN  IF Truthy(anatomy) THEN AnatomyPrefix(anatomy) \o q ELSE q

BuildQuery(data, anatomy) ==
    LET q == IF Truthy(data.symptoms) THEN data.symptoms ELSE EmptyText
    IN  IF Truthy(anatomy) THEN AnatomyPrefix(anatomy) \o q
        ELSE IF ~ Truthy(Trim(q)) THEN DefaultQuery
        ELSE q

CatchMessage(err) ==
    IF err.isError THEN err.message ELSE <<"An unexpected error occurred">>

----------------------------------------------------------------------------
(* The case registry and the similarity retriever (services/mockVectorDb)  *)
(* The service is imported by App.tsx; its contract is the retriever's:    *)
(* score every case against the query, clamp the score to [0,100], order   *)
(* by descending score and ascending id, return the first K, and fail on   *)
(* an empty registry.                                                      *)

K == 5
HitWeight == 40

Tokens(text) == {text[i] : i \in 1..Len(text)}

\* the case with id i of the case pool; ids are single characters, so their
\* lexicographic order is the order of the numbers
CaseRecordOf(i) ==
    CASE i % 3 = 0 ->
           [id |-> i, symptomTags |-> {"mole", "irregular"},
            diagnosis |-> "Melanoma", visualFindingsText |-> {"asymmetric"}]
      [] i % 3 = 1 ->
           [id |-> i, symptomTags |-> {"cough"},
            diagnosis |-> "Adenocarcinoma",
            visualFindingsText |-> {"Lung", "nodule"}]
      [] OTHER ->
           [id |-> i, symptomTags |-> {"headache"},
            diagnosis |-> "Glioma", visualFindingsText |-> {"mass"}]

\* a registry snapshot: the cases of `ids`, loaded newest id first
RECURSIVE Loaded(_)
Loaded(ids) ==
    IF ids = {} THEN <<>>
    ELSE LET newest == CHOOSE i \in ids : \A j \in ids : j <= i
         IN  <<CaseRecordOf(newest)>> \o Loaded(ids \ {newest})

Registries == {Loaded(ids) : ids \in SUBSET (1..MaxRegistry)}

RetrievalQueries ==
    {<<"mole">>, <<"mole", " ", "irregular", " ", "asymmetric">>,
     AnatomyPrefix(<<"Lung">>) \o <<"cough", " ", "nodule">>, DefaultQuery}

Clamp(x) == IF x < 0 THEN 0 ELSE IF x > 100 THEN 100 ELSE x

\* tokens of the query found in the case's tags, diagnosis and findings
Hits(q, c) ==
    Cardinality(Tokens(q) \cap
                (c.symptomTags \cup {c.diagnosis} \cup c.visualFindingsText))

relevanceScore(q, c) == Clamp(HitWeight * Hits(q, c))

RankedCase(q, c) ==
    [id |-> c.id, symptomTags |-> c.symptomTags, diagnosis |-> c.diagnosis,
     visualFindingsText |-> c.visualFindingsText,
     relevanceScore |-> relevanceScore(q, c)]

BeforeByScoreOnly(a, b) == a.relevanceScore > b.relevanceScore

\* the order of the ranking: higher score first, equal scores by ascending id
Before(a, b) ==
    \/ a.relevanceScore > b.relevanceScore
    \/ a.relevanceScore = b.relevanceScore /\ a.id < b.id

Take(s, n) == IF Len(s) <= n THEN s ELSE SubSeq(s, 1, n)

\* rank(query, registry): the first K of all cases in ranking order (a floor
\* on the score is relaxed whenever it would leave fewer than K)
rank(q, registry) ==
    IF registry = <<>>
    THEN [ok |-> FALSE, cases |-> <<>>, error |-> EmptyRegistryError]
    ELSE [ok |-> TRUE,
          cases |-> Take(SortSeq([i \in 1..Len(registry) |->
                                     RankedCase(q, registry[i])], Before), K),
          error |-> NonError]

InitialVectorDb == [registry |-> <<>>, query |-> EmptyText, outcome |-> Null]

----------------------------------------------------------------------------
(* processingStage updaters *)

addLogKeepsFour(ps, msg) == [ps EXCEPT !.log = Append(SliceLast(@, 4), msg)]

addLogNewestFirst(ps, msg) == [ps EXCEPT !.log = <<msg>> \o SliceLast(@, 3)]

addLog(ps, msg) == [ps EXCEPT !.log = Append(SliceLast(@, 3), msg)]

Replace(s, l, p, lg) == [k |-> "replace", step |-> s, label |-> l, progress |-> p, log |-> lg]
Stage(s, l, p) == [k |-> "stage", step |-> s, label |-> l, progress |-> p]
Progress(p) == [k |-> "progress", progress |-> p]
Finish(l, p) == [k |-> "finish", label |-> l, progress |-> p]
Log(m) == [k |-> "log", msg |-> m]

ApplyUpdate(ps, u) ==
    CASE u.k = "replace" ->
            [step |-> u.step, label |-> u.label, progress |-> u.progress, log |-> u.log]
      [] u.k = "stage" ->
            [ps EXCEPT !.step = u.step, !.label = u.label, !.progress = u.progress]
      [] u.k = "progress" -> [ps EXCEPT !.progress = u.progress]
      [] u.k = "finish" -> [ps EXCEPT !.label = u.label, !.progress = u.progress]
      [] u.k = "log" -> addLog(ps, u.msg)

RECURSIVE ApplyAll(_, _)
ApplyAll(ps, us) ==
    IF Len(us) = 0 THEN ps ELSE ApplyAll(ApplyUpdate(ps, Head(us)), Tail(us))

\* the values processingStage takes while the updates are applied in order
RECURSIVE Written(_, _)
Written(ps, us) ==
    IF Len(us) = 0 THEN <<>>
    ELSE <<ApplyUpdate(ps, Head(us))>> \o Written(ApplyUpdate(ps, Head(us)), Tail(us))

InitUpdatesKeepsLog ==
    <<Stage("vision", <<"Booting Neural Engines...">>, 5),
      Log(<<"> System init sequence started...">>)>>

InitUpdates ==
    <<Replace("vision", <<"Booting Neural Engines...">>, 5,
              <<(<<"> System init sequence started...">>)>>)>>

VisionUpdates ==
    <<Stage("vision", <<"Analyzing Visual Structures">>, 15),
      Log(<<"> ResNet-50: Loading weights...">>)>>

ClassifiedUpdates(anatomy) ==
    <<Log(<<"> Anatomy Identified: ">> \o anatomy), Progress(30)>>

BypassUpdatesNoLine ==
    <<Stage("vision", <<"Skipping Vision Layer">>, 30)>>

BypassUpdates ==
    <<Stage("vision", <<"Skipping Vision Layer">>, 30),
      Log(<<"> No image data provided. Bypassing vision stack.">>)>>

RegistryUpdatesSkipped ==
    <<Stage("retrieval", <<"Connecting to Research Nodes">>, 45),
      Log(<<"> Handshake: NIH / TCIA / ISIC ...">>)>>

RegistryUpdates ==
    <<Stage("registry", <<"Connecting to Research Nodes">>, 45),
      Log(<<"> Handshake: NIH / TCIA / ISIC ...">>)>>

ConnectedUpdatesSilent == <<>>

ConnectedUpdates ==
    <<Log(<<"> Connection established: 12 Nodes Online">>)>>

RetrievalUpdatesLow ==
    <<Stage("retrieval", <<"Traversing Vector Space">>, 40),
      Log(<<"> Querying dense vector embeddings...">>)>>

RetrievalUpdates ==
    <<Stage("retrieval", <<"Traversing Vector Space">>, 60),
      Log(<<"> Querying dense vector embeddings...">>)>>

RetrievedUpdatesHigh(cases) ==
    <<Progress(80),
      Log(<<"> Retrieval complete: ", ToString(Len(cases)), " candidates found.">>)>>

RetrievedUpdates(cases) ==
    <<Progress(75),
      Log(<<"> Retrieval complete: ", ToString(Len(cases)), " candidates found.">>)>>

SynthesisUpdatesFull ==
    <<Stage("synthesis", <<"Generating Clinical Synthesis">>, 100),
      Log(<<"> Gemini 3 Pro: Reasoning context window active...">>)>>

SynthesisUpdates ==
    <<Stage("synthesis", <<"Generating Clinical Synthesis">>, 85),
      Log(<<"> Gemini 3 Pro: Reasoning context window active...">>)>>

FinalUpdates ==
    <<Finish(<<"Finalizing Report">>, 100),
      Log(<<"> Output generated successfully.">>)>>

----------------------------------------------------------------------------
(* History bookkeeping *)

Call(fn, args) == [ev |-> "call", fn |-> fn, args |-> args]
\* `val` is the value the promise resolved with, or the reason it rejected with
Settle(fn, ok, val) ==
    [ev |-> IF ok THEN "resolve" ELSE "reject", fn |-> fn, args |-> <<val>>]

\* the run queues the updates `us` on processingStage
Write(us) ==
    /\ processingStage' = ApplyAll(processingStage, us)
    /\ psTrace' = psTrace \o Written(processingStage, us)

\* the run calls collaborator `fn` after writing `us`, having seen `seen` settle
Invoke(fn, args, us, seen) ==
    /\ pending' = (pending \ {seen.fn}) \cup {fn}
    /\ events' = events \o <<seen, Call(fn, args)>>
    /\ psAtCall' = ApplyAll(processingStage, us)

----------------------------------------------------------------------------
(* Initial state: the useState initialisers, lines 85-105 *)

AppInit ==
    /\ step = "input"
    /\ patientData = InitialPatientData
    /\ analysisResult = Null
    /\ error = Null
    /\ systemHealth = <<>>
    /\ processingStage = InitialProcessingStage
    /\ pc = "idle"
    /\ runData = InitialPatientData
    /\ anatomyContext = EmptyText
    /\ query = EmptyText
    /\ similarCases = <<>>
    /\ result = Null
    /\ pending = {}
    /\ events = <<>>
    /\ psTrace = <<>>
    /\ psAtCall = InitialProcessingStage
    /\ consoleErrors = <<>>
    /\ lastEvent = "init"

Init == AppInit /\ vectorDb = InitialVectorDb

runLocals == <<runData, anatomyContext, query, similarCases, result>>
runHistory == <<pending, events, psTrace, psAtCall, consoleErrors>>

----------------------------------------------------------------------------
(* User handlers of the input phase (rendered only while step = 'input') *)

InputRendered == step = "input"
ResultsRendered == step = "results" /\ ~ IsNull(analysisResult)

FieldValues(name) ==
    CASE name = "age" -> Ages
      [] name = "gender" -> Genders
      [] name = "symptoms" -> SymptomTexts

handleInputChangeAnyPhase(name, value) ==
    /\ patientData' = [patientData EXCEPT ![name] = value]
    /\ lastEvent' = "handleInputChange"
    /\ UNCHANGED vectorDb
    /\ UNCHANGED <<step, analysisResult, error, systemHealth, processingStage,
                   pc, runLocals, runHistory>>

handleInputChange(name, value) ==
    /\ InputRendered
    /\ patientData' = [patientData EXCEPT ![name] = value]
    /\ lastEvent' = "handleInputChange"
    /\ UNCHANGED vectorDb
    /\ UNCHANGED <<step, analysisResult, error, systemHealth, processingStage,
                   pc, runLocals, runHistory>>

handleFileChange(files) ==
    /\ InputRendered
    /\ patientData' = IF Len(files) > 0
                         THEN [patientData EXCEPT !.images = files]
                         ELSE patientData
    /\ lastEvent' = "handleFileChange"
    /\ UNCHANGED vectorDb
    /\ UNCHANGED <<step, analysisResult, error, systemHealth, processingStage,
                   pc, runLocals, runHistory>>

resetKeepsResult ==
    /\ ResultsRendered
    /\ step' = "input"
    /\ patientData' = InitialPatientData
    /\ systemHealth' = <<>>
    /\ lastEvent' = "reset"
    /\ UNCHANGED vectorDb
    /\ UNCHANGED <<analysisResult, error, processingStage, pc, runLocals, runHistory>>

reset ==
    /\ ResultsRendered
    /\ step' = "input"
    /\ analysisResult' = Null
    /\ patientData' = InitialPatientData
    /\ systemHealth' = <<>>
    /\ lastEvent' = "reset"
    /\ UNCHANGED vectorDb
    /\ UNCHANGED <<error, processingStage, pc, runLocals, runHistory>>

----------------------------------------------------------------------------
(* runAnalysis, lines 133-210 *)

\* lines 135-138
RunRejectAge ==
    /\ InputRendered
    /\ ~ Truthy(patientData.age)
    /\ error' = Some(<<"Please provide patient age.">>)
    /\ lastEvent' = "validationError"
    /\ UNCHANGED vectorDb
    /\ UNCHANGED <<step, patientData, analysisResult, systemHealth,
                   processingStage, pc, runLocals, runHistory>>

RunRejectEmptyAfterStart ==
    /\ InputRendered
    /\ Truthy(patientData.age)
    /\ ~ hasSymptoms(patientData) /\ ~ hasImages(patientData)
    /\ error' = Some(<<"Please provide either clinical symptoms OR upload diagnostic imagery.">>)
    /\ processingStage' = ApplyAll(processingStage, InitUpdates)
    /\ lastEvent' = "validationError"
    /\ UNCHANGED vectorDb
    /\ UNCHANGED <<step, patientData, analysisResult, systemHealth,
                   pc, runLocals, runHistory>>

\* lines 139-145
RunRejectEmpty ==
    /\ InputRendered
    /\ Truthy(patientData.age)
    /\ ~ hasSymptoms(patientData) /\ ~ hasImages(patientData)
    /\ error' = Some(<<"Please provide either clinical symptoms OR upload diagnostic imagery.">>)
    /\ lastEvent' = "validationError"
    /\ UNCHANGED vectorDb
    /\ UNCHANGED <<step, patientData, analysisResult, systemHealth,
                   processingStage, pc, runLocals, runHistory>>

Valid(data) == Truthy(data.age) /\ (hasSymptoms(data) \/ hasImages(data))

BeginKeepsStep ==
    /\ error' = Null
    /\ systemHealth' = <<>>
    /\ runData' = patientData
    /\ anatomyContext' = EmptyText
    /\ query' = EmptyText
    /\ similarCases' = <<>>
    /\ result' = Null
    /\ consoleErrors' = <<>>
    /\ UNCHANGED <<step, patientData, analysisResult>>

BeginKeepsError ==
    /\ step' = "analyzing"
    /\ systemHealth' = <<>>
    /\ runData' = patientData
    /\ anatomyContext' = EmptyText
    /\ query' = EmptyText
    /\ similarCases' = <<>>
    /\ result' = Null
    /\ consoleErrors' = <<>>
    /\ UNCHANGED <<patientData, analysisResult, error>>

\* lines 147-152: the state a run starts from
Begin ==
    /\ step' = "analyzing"
    /\ error' = Null
    /\ systemHealth' = <<>>
    /\ runData' = patientData
    /\ anatomyContext' = EmptyText
    /\ query' = EmptyText
    /\ similarCases' = <<>>
    /\ result' = Null
    /\ consoleErrors' = <<>>
    /\ UNCHANGED <<patientData, analysisResult>>

\* lines 147-161: images attached, run up to the await of the classifier
RunStartVision ==
    /\ InputRendered
    /\ Valid(patientData)
    /\ hasImages(patientData)
    /\ Begin
    /\ LET us == InitUpdates \o VisionUpdates
       IN  /\ processingStage' = ApplyAll(processingStage, us)
           /\ psTrace' = Written(processingStage, us)
           /\ psAtCall' = ApplyAll(processingStage, us)
    /\ pending' = {"identifyAnatomyFromImage"}
    /\ events' = <<Call("identifyAnatomyFromImage", <<patientData.images[1]>>)>>
    /\ pc' = "awaitClassifier"
    /\ lastEvent' = "runAnalysis"
    /\ UNCHANGED vectorDb

\* lines 147-156, 167-170: no images, run up to the await of the 800 ms timer
RunStartBypass ==
    /\ InputRendered
    /\ Valid(patientData)
    /\ ~ hasImages(patientData)
    /\ Begin
    /\ LET us == InitUpdates \o BypassUpdates
       IN  /\ processingStage' = ApplyAll(processingStage, us)
           /\ psTrace' = Written(processingStage, us)
           /\ psAtCall' = ApplyAll(processingStage, us)
    /\ pending' = {}
    /\ events' = <<>>
    /\ pc' = "awaitBypassTimer"
    /\ lastEvent' = "runAnalysis"
    /\ UNCHANGED vectorDb

CatchResetsProgress(err, fn) ==
    /\ error' = Some(CatchMessage(err))
    /\ step' = "input"
    /\ pc' = "idle"
    /\ pending' = pending \ {fn}
    /\ events' = Append(events, Settle(fn, FALSE, err))
    /\ lastEvent' = "runFailed"
    /\ UNCHANGED vectorDb
    /\ processingStage' = InitialProcessingStage
    /\ UNCHANGED <<patientData, analysisResult, systemHealth,
                   runLocals, psTrace, psAtCall, consoleErrors>>

\* lines 206-209: the outer catch
Catch(err, fn) ==
    /\ error' = Some(CatchMessage(err))
    /\ step' = "input"
    /\ pc' = "idle"
    /\ pending' = pending \ {fn}
    /\ events' = Append(events, Settle(fn, FALSE, err))
    /\ lastEvent' = "runFailed"
    /\ UNCHANGED vectorDb
    /\ UNCHANGED <<patientData, analysisResult, systemHealth, processingStage,
                   runLocals, psTrace, psAtCall, consoleErrors>>

\* lines 173-176: registry stage up to the await of the health probe
EnterRegistry(before, seen) ==
    /\ Write(before \o RegistryUpdates)
    /\ Invoke("getRegistryHealth", <<>>, before \o RegistryUpdates, seen)
    /\ pc' = "awaitProbe"

\* lines 161-163, then 173-176
ClassifierResolves(label) ==
    /\ pc = "awaitClassifier"
    /\ anatomyContext' = label
    /\ EnterRegistry(ClassifiedUpdates(label), Settle("identifyAnatomyFromImage", TRUE, label))
    /\ lastEvent' = "classifierResolved"
    /\ UNCHANGED vectorDb
    /\ UNCHANGED consoleErrors
    /\ UNCHANGED <<step, patientData, analysisResult, error, systemHealth,
                   runData, query, similarCases, result>>

ClassifierRejectsFatal(err) ==
    /\ pc = "awaitClassifier"
    /\ Catch(err, "identifyAnatomyFromImage")

ClassifierRejectsLogsToPanel(err) ==
    /\ pc = "awaitClassifier"
    /\ EnterRegistry(<<Log(<<"> Could not identify anatomy">>)>>,
                     Settle("identifyAnatomyFromImage", FALSE, err))
    /\ lastEvent' = "classifierRejected"
    /\ UNCHANGED vectorDb
    /\ UNCHANGED <<step, patientData, analysisResult, error, systemHealth,
                   runLocals, consoleErrors>>

\* lines 164-166 (inner catch), then 173-176
ClassifierRejects(err) ==
    /\ pc = "awaitClassifier"
    /\ EnterRegistry(<<>>, Settle("identifyAnatomyFromImage", FALSE, err))
    /\ consoleErrors' = Append(consoleErrors, <<"Could not identify anatomy", err>>)
    /\ lastEvent' = "classifierRejected"
    /\ UNCHANGED vectorDb
    /\ UNCHANGED <<step, patientData, analysisResult, error, systemHealth,
                   runLocals>>

\* line 170 resumes, then 173-176
BypassTimerFires ==
    /\ pc = "awaitBypassTimer"
    /\ Write(RegistryUpdates)
    /\ pending' = {"getRegistryHealth"}
    /\ events' = events \o <<Call("getRegistryHealth", <<>>)>>
    /\ psAtCall' = ApplyAll(processingStage, RegistryUpdates)
    /\ pc' = "awaitProbe"
    /\ lastEvent' = "bypassTimerFired"
    /\ UNCHANGED vectorDb
    /\ UNCHANGED consoleErrors
    /\ UNCHANGED <<step, patientData, analysisResult, error, systemHealth,
                   runLocals>>

\* lines 176-191: probe resolved, run up to the await of the retriever
ProbeResolves(health) ==
    /\ pc = "awaitProbe"
    /\ systemHealth' = health
    /\ query' = BuildQuery(runData, anatomyContext)
    /\ Write(ConnectedUpdates \o RetrievalUpdates)
    /\ Invoke("retrieveSimilarCases", <<BuildQuery(runData, anatomyContext)>>,
              ConnectedUpdates \o RetrievalUpdates, Settle("getRegistryHealth", TRUE, health))
    /\ pc' = "awaitRetriever"
    /\ lastEvent' = "probeResolved"
    /\ UNCHANGED vectorDb
    /\ UNCHANGED consoleErrors
    /\ UNCHANGED <<step, patientData, analysisResult, error, runData,
                   anatomyContext, similarCases, result>>

ProbeRejectsSwallowed(err) ==
    /\ pc = "awaitProbe"
    /\ query' = BuildQuery(runData, anatomyContext)
    /\ Write(RetrievalUpdates)
    /\ Invoke("retrieveSimilarCases", <<BuildQuery(runData, anatomyContext)>>,
              RetrievalUpdates, Settle("getRegistryHealth", FALSE, err))
    /\ pc' = "awaitRetriever"
    /\ lastEvent' = "probeRejected"
    /\ UNCHANGED vectorDb
    /\ UNCHANGED consoleErrors
    /\ UNCHANGED <<step, patientData, analysisResult, error, systemHealth,
                   runData, anatomyContext, similarCases, result>>

ProbeRejects(err) ==
    /\ pc = "awaitProbe"
    /\ Catch(err, "getRegistryHealth")

RetrieverResolvesThrowsOnEmpty(cases) ==
    /\ pc = "awaitRetriever"
    /\ similarCases' = cases
    /\ IF Len(cases) = 0
       THEN /\ error' = Some(<<"No similar cases found">>)
            /\ step' = "input"
            /\ pc' = "idle"
            /\ pending' = {}
            /\ events' = Append(events, Settle("retrieveSimilarCases", TRUE, cases))
            /\ lastEvent' = "runFailed"
            /\ UNCHANGED vectorDb
            /\ UNCHANGED <<processingStage, psTrace, psAtCall>>
       ELSE /\ Write(RetrievedUpdates(cases) \o SynthesisUpdates)
            /\ Invoke("analyzePatientCase", <<runData, cases>>,
                      RetrievedUpdates(cases) \o SynthesisUpdates,
                      Settle("retrieveSimilarCases", TRUE, cases))
            /\ pc' = "awaitSynthesizer"
            /\ lastEvent' = "retrieverResolved"
            /\ UNCHANGED vectorDb
            /\ UNCHANGED <<step, error>>
    /\ UNCHANGED <<patientData, analysisResult, systemHealth,
                   runData, anatomyContext, query, result, consoleErrors>>

\* lines 191-198: retriever resolved, run up to the await of the synthesizer
RetrieverResolves(cases) ==
    /\ pc = "awaitRetriever"
    /\ similarCases' = cases
    /\ Write(RetrievedUpdates(cases) \o SynthesisUpdates)
    /\ Invoke("analyzePatientCase", <<runData, cases>>,
              RetrievedUpdates(cases) \o SynthesisUpdates,
              Settle("retrieveSimilarCases", TRUE, cases))
    /\ pc' = "awaitSynthesizer"
    /\ lastEvent' = "retrieverResolved"
    /\ UNCHANGED vectorDb
    /\ UNCHANGED consoleErrors
    /\ UNCHANGED <<step, patientData, analysisResult, error, systemHealth,
                   runData, anatomyContext, query, result>>

RetrieverRejectsAsNoMatches(err) ==
    /\ pc = "awaitRetriever"
    /\ similarCases' = <<>>
    /\ Write(RetrievedUpdates(<<>>) \o SynthesisUpdates)
    /\ Invoke("analyzePatientCase", <<runData, <<>>>>,
              RetrievedUpdates(<<>>) \o SynthesisUpdates,
              Settle("retrieveSimilarCases", FALSE, err))
    /\ pc' = "awaitSynthesizer"
    /\ lastEvent' = "retrieverResolved"
    /\ UNCHANGED vectorDb
    /\ UNCHANGED consoleErrors
    /\ UNCHANGED <<step, patientData, analysisResult, error, systemHealth,
                   runData, anatomyContext, query, result>>

\* lines 191, 206-209: the retriever rejected
RetrieverRejects(err) ==
    /\ pc = "awaitRetriever"
    /\ Catch(err, "retrieveSimilarCases")

SynthesizerResolvesPublishesEarly(report) ==
    /\ pc = "awaitSynthesizer"
    /\ result' = Some(report)
    /\ analysisResult' = Some(report)
    /\ Write(FinalUpdates)
    /\ pending' = pending \ {"analyzePatientCase"}
    /\ events' = Append(events, Settle("analyzePatientCase", TRUE, report))
    /\ pc' = "awaitExitTimer"
    /\ lastEvent' = "synthesizerResolved"
    /\ UNCHANGED vectorDb
    /\ UNCHANGED consoleErrors
    /\ UNCHANGED <<step, patientData, error, systemHealth,
                   runData, anatomyContext, query, similarCases, psAtCall>>

\* lines 198-202: synthesizer resolved, run up to the await of the exit timer
SynthesizerResolves(report) ==
    /\ pc = "awaitSynthesizer"
    /\ result' = Some(report)
    /\ Write(FinalUpdates)
    /\ pending' = pending \ {"analyzePatientCase"}
    /\ events' = Append(events, Settle("analyzePatientCase", TRUE, report))
    /\ pc' = "awaitExitTimer"
    /\ lastEvent' = "synthesizerResolved"
    /\ UNCHANGED vectorDb
    /\ UNCHANGED consoleErrors
    /\ UNCHANGED <<step, patientData, analysisResult, error, systemHealth,
                   runData, anatomyContext, query, similarCases, psAtCall>>

SynthesizerRejects(err) ==
    /\ pc = "awaitSynthesizer"
    /\ Catch(err, "analyzePatientCase")

ExitTimerFiresKeepsStep ==
    /\ pc = "awaitExitTimer"
    /\ analysisResult' = result
    /\ pc' = "idle"
    /\ lastEvent' = "runDone"
    /\ UNCHANGED vectorDb
    /\ UNCHANGED <<step, patientData, error, systemHealth, processingStage,
                   runLocals, runHistory>>

\* lines 202-205: the exit timer fired, the run completes
ExitTimerFires ==
    /\ pc = "awaitExitTimer"
    /\ analysisResult' = result
    /\ step' = "results"
    /\ pc' = "idle"
    /\ lastEvent' = "runDone"
    /\ UNCHANGED vectorDb
    /\ UNCHANGED <<patientData, error, systemHealth, processingStage,
                   runLocals, runHistory>>

----------------------------------------------------------------------------

Next ==
    \/ \E name \in {"age", "gender", "symptoms"} :
          \E value \in FieldValues(name) : handleInputChange(name, value)
    \/ \E files \in FileLists : handleFileChange(files)
    \/ reset
    \/ RunRejectAge
    \/ RunRejectEmpty
    \/ RunStartVision
    \/ RunStartBypass
    \/ \E label \in AnatomyLabels : ClassifierResolves(label)
    \/ \E err \in Rejections("identifyAnatomyFromImage") : ClassifierRejects(err)
    \/ BypassTimerFires
    \/ \E health \in HealthReports : ProbeResolves(health)
    \/ \E err \in Rejections("getRegistryHealth") : ProbeRejects(err)
    \/ \E cases \in CaseLists : RetrieverResolves(cases)
    \/ \E err \in Rejections("retrieveSimilarCases") : RetrieverRejects(err)
    \/ \E report \in Reports(runData, similarCases) : SynthesizerResolves(report)
    \/ \E err \in Rejections("analyzePatientCase") : SynthesizerRejects(err)
    \/ ExitTimerFires

Spec == Init /\ [][Next]_vars

\* the continuations of a run in flight: an awaited promise settles or an
\* awaited timer fires
RunContinues ==
    \/ \E label \in AnatomyLabels : ClassifierResolves(label)
    \/ \E err \in Rejections("identifyAnatomyFromImage") : ClassifierRejects(err)
    \/ BypassTimerFires
    \/ \E health \in HealthReports : ProbeResolves(health)
    \/ \E err \in Rejections("getRegistryHealth") : ProbeRejects(err)
    \/ \E cases \in CaseLists : RetrieverResolves(cases)
    \/ \E err \in Rejections("retrieveSimilarCases") : RetrieverRejects(err)
    \/ \E report \in Reports(runData, similarCases) : SynthesizerResolves(report)
    \/ \E err \in Rejections("analyzePatientCase") : SynthesizerRejects(err)
    \/ ExitTimerFires

\* every awaited promise eventually settles and every timer eventually fires
FairSpec == Spec /\ WF_vars(RunContinues)

----------------------------------------------------------------------------
(* The write primitive on its own: setProcessingStage applied to the
   updaters of lines 158-199 with any of the percents the code uses, from
   the initial processingStage. *)

Percents == {0, 5, 15, 30, 45, 60, 75, 85, 100}

StageLabel(s) ==
    CASE s = "vision" -> <<"Analyzing Visual Structures">>
      [] s = "registry" -> <<"Connecting to Research Nodes">>
      [] s = "retrieval" -> <<"Traversing Vector Space">>
      [] s = "synthesis" -> <<"Generating Clinical Synthesis">>

WriterUpdates ==
    {Stage(s, StageLabel(s), p) :
        s \in {"vision", "registry", "retrieval", "synthesis"}, p \in Percents}
    \cup {Progress(p) : p \in Percents}
    \cup {Finish(<<"Finalizing Report">>, p) : p \in Percents}
    \cup {Log(<<"> Handshake: NIH / TCIA / ISIC ...">>)}

setProcessingStage(u) ==
    /\ processingStage' = ApplyUpdate(processingStage, u)
    /\ UNCHANGED <<step, patientData, analysisResult, error, systemHealth, pc,
                   runLocals, runHistory, lastEvent, vectorDb>>

WriterNext == \E u \in WriterUpdates : setProcessingStage(u)

WriterSpec == Init /\ [][WriterNext]_vars

----------------------------------------------------------------------------
(* The retriever on its own: rank applied to every query over every
   registry snapshot.  The registry is loaded once and only read. *)

RegistryInit ==
    /\ AppInit
    /\ vectorDb \in {[registry |-> r, query |-> EmptyText, outcome |-> Null] :
                       r \in Registries}

retrieveSimilarCases(q) ==
    /\ vectorDb' = [vectorDb EXCEPT !.query = q,
                                    !.outcome = Some(rank(q, vectorDb.registry))]
    /\ UNCHANGED <<step, patientData, analysisResult, error, systemHealth,
                   processingStage, pc, runLocals, runHistory, lastEvent>>

RegistryNext == \E q \in RetrievalQueries : retrieveSimilarCases(q)

RegistrySpec == RegistryInit /\ [][RegistryNext]_vars

----------------------------------------------------------------------------
(* Vocabulary of the properties *)

Done == step = "results" /\ ~ IsNull(analysisResult) /\ IsNull(error)
Failed == step = "input" /\ ~ IsNull(error) /\ IsNull(analysisResult)

Collaborators ==
    <<"identifyAnatomyFromImage", "getRegistryHealth", "retrieveSimilarCases",
      "analyzePatientCase">>
CollabRank(fn) == CHOOSE i \in 1..4 : Collaborators[i] = fn
Stages == <<"vision", "registry", "retrieval", "synthesis">>
StageRank(s) == CHOOSE i \in 1..4 : Stages[i] = s
StageOf(fn) == Stages[CollabRank(fn)]

Happened(ev, fn) == \E i \in 1..Len(events) : events[i].ev = ev /\ events[i].fn = fn
LastSettlement == events[Len(events)]
RunFailedAt(fn) ==
    /\ Len(events) > 0
    /\ LastSettlement.ev = "reject"
    /\ LastSettlement.fn = fn
FatalCollaborators == {"getRegistryHealth", "retrieveSimilarCases", "analyzePatientCase"}
HasAnatomyPrefix(q) == Len(q) > 0 /\ q[1] = "[PATIENT IMAGING ANATOMY: "

----------------------------------------------------------------------------
(* C1: a run that has passed validation leaves 'analyzing' in exactly one of
   two states, Done (step = 'results', result present, error null) or Failed
   (step = 'input', error present, result null), whatever runs and resets
   came before; a result and an error are never both present. *)
C1_DoneXorFailed ==
    /\ [](~ (~ IsNull(analysisResult) /\ ~ IsNull(error)))
    /\ [][(pc # "idle" /\ pc' = "idle") =>
             /\ (Done' \/ Failed')
             /\ ~ (Done' /\ Failed')
             /\ (lastEvent' = "runDone" <=> Done')
             /\ (lastEvent' = "runFailed" <=> Failed')]_vars

\* a run that got as far as the synthesizer has ended Failed
C1_Witness ==
    /\ lastEvent = "runFailed"
    /\ Failed
    /\ RunFailedAt("analyzePatientCase")

(* C2: when validation fails, runAnalysis sets a validation error and
   returns: no collaborator is invoked, step stays 'input' and
   processingStage is what it was before the call. *)
C2_ValidationFailsFast ==
    [][(lastEvent' \in {"validationError", "runAnalysis"} /\ ~ Valid(patientData)) =>
          /\ lastEvent' = "validationError"
          /\ ~ IsNull(error')
          /\ step = "input" /\ step' = "input"
          /\ pc' = "idle"
          /\ processingStage' = processingStage
          /\ events' = events
          /\ pending' = pending /\ pending' = {}]_vars

\* a validation failure after an earlier run has left its processingStage
C2_Witness ==
    /\ lastEvent = "validationError"
    /\ Truthy(patientData.age)
    /\ processingStage.progress = 45

(* C3: within a run the stage advances vision -> registry -> retrieval ->
   synthesis -> results without skipping or going back; the collaborators are
   called in the order classifier (only with images), probe, retriever,
   synthesizer, each at most once, each only after the previous call has
   settled, so that at most one call is outstanding. *)
C3_StageAndCallOrder ==
    /\ Cardinality(pending) <= 1
    /\ \A fn \in pending : pc # "idle" /\ processingStage.step = StageOf(fn)
    /\ Len(psTrace) > 0 => psTrace[1].step = "vision"
    /\ \A i \in 1..(Len(psTrace) - 1) :
          StageRank(psTrace[i + 1].step) - StageRank(psTrace[i].step) \in {0, 1}
    /\ step = "results" => processingStage.step = "synthesis"
    /\ \A i \in 1..Len(events) :
          IF i % 2 = 1
          THEN /\ events[i].ev = "call"
               /\ i = 1 => events[i].fn = IF hasImages(runData)
                                             THEN "identifyAnatomyFromImage"
                                             ELSE "getRegistryHealth"
               /\ i > 1 => CollabRank(events[i].fn) = CollabRank(events[i - 2].fn) + 1
          ELSE /\ events[i].ev \in {"resolve", "reject"}
               /\ events[i].fn = events[i - 1].fn

\* the fourth collaborator is called after the three before it have settled
C3_Witness ==
    /\ pending = {"analyzePatientCase"}
    /\ Len(events) = 7

(* C4: a rejection of the probe, the retriever or the synthesizer is fatal:
   the run ends Failed with the message of that rejection and no later
   collaborator is called; a rejection of the classifier is the only one
   after which the run goes on. *)
C4_FatalRejections ==
    /\ \A i \in 1..Len(events) :
          events[i].ev = "reject" =>
             IF events[i].fn \in FatalCollaborators
             THEN /\ i = Len(events)
                  /\ pc = "idle" /\ pending = {}
                  /\ step = "input" /\ ~ IsNull(error) /\ IsNull(analysisResult)
             ELSE /\ i < Len(events)
                  /\ events[i + 1] = Call("getRegistryHealth", <<>>)
    /\ lastEvent = "runFailed" =>
          /\ \E fn \in FatalCollaborators : RunFailedAt(fn)
          /\ error = Some(CatchMessage(LastSettlement.args[1]))

\* the probe rejected: neither the retriever nor the synthesizer was called
C4_Witness ==
    /\ lastEvent = "runFailed"
    /\ RunFailedAt("getRegistryHealth")
    /\ ~ Happened("call", "retrieveSimilarCases")
    /\ ~ Happened("call", "analyzePatientCase")

(* C5: when the classifier rejects, the run enters the registry stage with
   an empty anatomy context, the retrieval query has no anatomy prefix, and
   when the other three collaborators resolve the run ends Done with the
   result the synthesizer returned. *)
C5_ClassifierFailureTolerated ==
    Happened("reject", "identifyAnatomyFromImage") =>
       /\ anatomyContext = EmptyText
       /\ Happened("call", "getRegistryHealth")
       /\ lastEvent = "classifierRejected" =>
             /\ step = "analyzing" /\ pc = "awaitProbe"
             /\ processingStage.step = "registry"
             /\ IsNull(error)
       /\ \A i \in 1..Len(events) :
             (events[i].ev = "call" /\ events[i].fn = "retrieveSimilarCases") =>
                /\ ~ HasAnatomyPrefix(events[i].args[1])
                /\ events[i].args[1] = query
       /\ Happened("resolve", "analyzePatientCase") =>
             /\ pc \in {"awaitExitTimer", "idle"}
             /\ lastEvent # "runFailed"
             /\ lastEvent = "runDone" =>
                   /\ Done
                   /\ analysisResult = LastSettlement.args

\* a run whose classifier rejected has reached Done
C5_Witness ==
    /\ Happened("reject", "identifyAnatomyFromImage")
    /\ lastEvent = "runDone"
    /\ Done

(* C6: the values written to processingStage.progress during one run never
   decrease, on any path; progress is lowered only by the write that starts
   a new run. *)
C6_ProgressMonotone ==
    /\ [](\A i \in 1..(Len(psTrace) - 1) :
             psTrace[i].progress <= psTrace[i + 1].progress)
    /\ [][processingStage'.progress < processingStage.progress =>
             /\ lastEvent' = "runAnalysis"
             /\ pc = "idle" /\ pc' # "idle"
             /\ psTrace'[1].progress = 5]_vars

\* a complete run has written 5, 15, 30, 45, 60, 75, 85, 100
C6_Witness ==
    /\ Len(psTrace) > 0
    /\ psTrace[Len(psTrace)].progress = 100
    /\ \E i \in 1..Len(psTrace) : psTrace[i].progress = 15

(* C7: progress is 100 in a run only after the synthesizer has resolved, a
   run whose progress reached 100 ends Done, and a run that ended Failed
   never had progress 100. *)
C7_FullProgressOnlyOnSuccess ==
    /\ \A i \in 1..Len(psTrace) :
          psTrace[i].progress = 100 =>
             /\ Happened("resolve", "analyzePatientCase")
             /\ ~ IsNull(result)
             /\ ~ (\E fn \in FatalCollaborators : RunFailedAt(fn))
             /\ lastEvent # "runFailed"
             /\ pc \in {"awaitExitTimer", "idle"}
             /\ (pc = "idle" /\ step # "input") => Done
    /\ processingStage.progress = 100 =>
          Len(psTrace) > 0 /\ psTrace[Len(psTrace)].progress = 100
    /\ lastEvent = "runFailed" => processingStage.progress < 100

\* progress is 100 while the run waits for its exit timer
C7_Witness ==
    /\ pc = "awaitExitTimer"
    /\ processingStage.progress = 100

(* C8: processingStage.log never holds more than 4 entries, in any state and
   after any write, across any number of runs. *)
C8_LogAtMostFour ==
    /\ Len(processingStage.log) <= 4
    /\ \A i \in 1..Len(psTrace) : Len(psTrace[i].log) <= 4

\* the log is full and the oldest entry of the run has been evicted
C8_Witness ==
    /\ Len(processingStage.log) = 4
    /\ processingStage.log[1] # <<"> System init sequence started...">>

(* C9: a fatal failure leaves processingStage as it was when the failing
   call was made: the stage is that of the collaborator that failed, with
   the percent written before the call (registry and 45 for the probe), and
   nothing writes processingStage until the next run starts. *)
C9_ProgressFrozenOnFailure ==
    /\ [](\A fn \in FatalCollaborators :
             (RunFailedAt(fn) /\ pc = "idle") =>
                /\ processingStage = psAtCall
                /\ processingStage = psTrace[Len(psTrace)]
                /\ processingStage.step = StageOf(fn)
                /\ fn = "getRegistryHealth" => processingStage.progress = 45
                /\ fn = "retrieveSimilarCases" => processingStage.progress = 60
                /\ fn = "analyzePatientCase" => processingStage.progress = 85)
    /\ [][((\E fn \in FatalCollaborators : RunFailedAt(fn))
           /\ processingStage' # processingStage) => lastEvent' = "runAnalysis"]_vars

\* the probe rejected and the user has since edited the form
C9_Witness ==
    /\ RunFailedAt("getRegistryHealth")
    /\ lastEvent = "handleInputChange"
    /\ processingStage.step = "registry"

(* C10: runAnalysis never changes patientData: after a validation error, a
   fatal failure or a success patientData is what it was at the call, and
   no user handler can run while the run is in flight. *)
C10_PatientDataPreserved ==
    /\ [](step = "analyzing" => patientData = runData)
    /\ [](lastEvent \in {"runFailed", "runDone"} =>
             patientData = runData /\ Valid(patientData))
    /\ [][lastEvent' \notin {"handleInputChange", "handleFileChange", "reset"} =>
             patientData' = patientData]_vars
    /\ [][step = "analyzing" =>
             lastEvent' \notin {"handleInputChange", "handleFileChange", "reset"}]_vars

\* a failed run has left the entered data in place for a retry
C10_Witness ==
    /\ lastEvent = "runFailed"
    /\ patientData = runData
    /\ hasImages(patientData)
    /\ hasSymptoms(patientData)

----------------------------------------------------------------------------
(* Vocabulary of the properties about the retrieval query and the log *)

\* the events of this run that are `ev` of collaborator `fn`
EventsOf(ev, fn) ==
    {i \in 1..Len(events) : events[i].ev = ev /\ events[i].fn = fn}

\* the queries handed to the retriever in this run
RetrieverQueries ==
    {events[i].args[1] : i \in EventsOf("call", "retrieveSimilarCases")}

\* the label the vision stage produced ('' when it produced none)
VisionLabel ==
    IF EventsOf("resolve", "identifyAnatomyFromImage") = {}
    THEN EmptyText
    ELSE events[CHOOSE i \in EventsOf("resolve", "identifyAnatomyFromImage") : TRUE].args[1]

Contains(text, token) == \E i \in 1..Len(text) : text[i] = token

(* C11: when the vision stage produced a non-empty label L, the query handed
   to the retriever is "[PATIENT IMAGING ANATOMY: L] " followed by the
   symptoms as entered; when it produced no label the query has no such
   prefix (it is the symptoms or the default phrase). *)
C11_AnatomyPrefixedQuery ==
    \A q \in RetrieverQueries :
       IF VisionLabel # EmptyText
       THEN q = <<"[PATIENT IMAGING ANATOMY: ">> \o VisionLabel \o <<"] ">>
                   \o runData.symptoms
       ELSE /\ ~ HasAnatomyPrefix(q)
            /\ q \in {runData.symptoms, <<"visual anomaly suspected malignancy">>}

\* the retriever was called with a query built from a label and blank symptoms
C11_Witness ==
    /\ RetrieverQueries # {}
    /\ VisionLabel = <<"Lung">>
    /\ runData.symptoms = <<" ">>

(* C12 as stated: in every run with empty symptoms the default phrase stands
   in for the symptoms in the retrieval query, with or without an anatomy
   tag. *)
C12_DefaultPhraseAlways ==
    \A q \in RetrieverQueries :
       runData.symptoms = EmptyText =>
          q = (IF VisionLabel # EmptyText
                  THEN <<"[PATIENT IMAGING ANATOMY: ">> \o VisionLabel \o <<"] ">>
                  ELSE <<>>)
               \o <<"visual anomaly suspected malignancy">>

(* C12 as amended: in a run with empty symptoms the default phrase is the
   retrieval query only when the vision stage produced no anatomy label;
   when it produced a label the query is the anatomy tag alone and the
   default phrase is not used. *)
C12_DefaultPhraseOnlyWithoutLabel ==
    \A q \in RetrieverQueries :
       runData.symptoms = EmptyText =>
          IF VisionLabel = EmptyText
          THEN q = <<"visual anomaly suspected malignancy">>
          ELSE /\ q = <<"[PATIENT IMAGING ANATOMY: ">> \o VisionLabel \o <<"] ">>
               /\ ~ Contains(q, "visual anomaly suspected malignancy")

\* empty symptoms and a label: the retriever got the tag without the phrase
C12_Witness ==
    /\ RetrieverQueries # {}
    /\ runData.symptoms = EmptyText
    /\ VisionLabel = <<"Lung">>
    /\ query = <<"[PATIENT IMAGING ANATOMY: ", "Lung", "] ">>

\* the log writes of the vision stage of this run
VisionLogs == {psTrace[i].log : i \in {j \in 1..Len(psTrace) : psTrace[j].step = "vision"}}

(* C13 as stated: when the classifier fails, an entry recording the failure
   is appended to processingStage.log before the registry stage is entered
   (the vision stage log grows beyond the two lines written before the
   call). *)
C13_FailureInProgressLog ==
    Happened("reject", "identifyAnatomyFromImage") =>
       \E lg \in VisionLogs : Len(lg) > 2

(* C13 as amended: when the classifier fails, the failure is reported with
   console.error only; nothing is appended to processingStage.log for it, so
   the run enters the registry stage with the init line, the weights line
   and the handshake line. *)
C13_FailureOnConsoleOnly ==
    /\ Happened("reject", "identifyAnatomyFromImage") =>
          /\ Len(consoleErrors) = 1
          /\ consoleErrors[1][1] = "Could not identify anatomy"
          /\ \A i \in EventsOf("reject", "identifyAnatomyFromImage") :
                consoleErrors[1][2] = events[i].args[1]
          /\ \A lg \in VisionLogs :
                lg \in {<<(<<"> System init sequence started...">>)>>,
                        <<(<<"> System init sequence started...">>),
                          (<<"> ResNet-50: Loading weights...">>)>>}
          /\ lastEvent = "classifierRejected" =>
                processingStage.log =
                   <<(<<"> System init sequence started...">>),
                     (<<"> ResNet-50: Loading weights...">>),
                     (<<"> Handshake: NIH / TCIA / ISIC ...">>)>>
    /\ ~ Happened("reject", "identifyAnatomyFromImage") => consoleErrors = <<>>

\* the classifier has just rejected and the run waits for the probe
C13_Witness ==
    /\ lastEvent = "classifierRejected"
    /\ pc = "awaitProbe"
    /\ Len(consoleErrors) = 1
    /\ Len(processingStage.log) = 3

(* C14: in a run without imagery the classifier is never called, and before
   the health probe is called the stage is vision with progress 30 and the
   log holds the "Bypassing vision stack" line. *)
C14_BypassWithoutImagery ==
    (~ hasImages(runData) /\ Len(psTrace) > 0) =>
       /\ ~ Happened("call", "identifyAnatomyFromImage")
       /\ pc = "awaitBypassTimer" =>
             /\ events = <<>>
             /\ processingStage.step = "vision"
             /\ processingStage.progress = 30
             /\ Contains(processingStage.log,
                         <<"> No image data provided. Bypassing vision stack.">>)
       /\ Happened("call", "getRegistryHealth") =>
             \E i \in 1..Len(psTrace) :
                /\ \A j \in 1..i : psTrace[j].step = "vision"
                /\ psTrace[i].progress = 30
                /\ Contains(psTrace[i].log,
                            <<"> No image data provided. Bypassing vision stack.">>)

\* a run without imagery has called the probe
C14_Witness ==
    /\ ~ hasImages(runData)
    /\ lastEvent = "bypassTimerFired"
    /\ pending = {"getRegistryHealth"}

(* C15: when the retriever resolves with an empty sequence the run does not
   fail: it enters the synthesis stage and calls the synthesizer with the
   patient data of the run and the empty case list. *)
C15_EmptyRetrievalIsNotAnError ==
    \A i \in EventsOf("resolve", "retrieveSimilarCases") :
       Len(events[i].args[1]) = 0 =>
          /\ i < Len(events)
          /\ events[i + 1] = Call("analyzePatientCase", <<runData, <<>>>>)
          /\ lastEvent = "retrieverResolved" =>
                /\ step = "analyzing" /\ pc = "awaitSynthesizer"
                /\ IsNull(error)
                /\ processingStage.step = "synthesis"
                /\ runData = patientData

\* the synthesizer is being awaited after an empty retrieval
C15_Witness ==
    /\ lastEvent = "retrieverResolved"
    /\ similarCases = <<>>
    /\ pending = {"analyzePatientCase"}

(* C16: in every state, and after every write, the percent is within the
   ceiling of the current stage: vision 30, registry 45, retrieval 75,
   synthesis 100. *)
C16_StageCeilings ==
    \A ps \in {processingStage} \cup {psTrace[i] : i \in 1..Len(psTrace)} :
       /\ ps.step = "vision" => ps.progress <= 30
       /\ ps.step = "registry" => ps.progress <= 45
       /\ ps.step = "retrieval" => ps.progress <= 75
       /\ ps.step = "synthesis" => ps.progress <= 100

\* the retrieval stage is at its ceiling
C16_Witness ==
    /\ \E i \in 1..Len(psTrace) :
          psTrace[i].step = "retrieval" /\ psTrace[i].progress = 75
    /\ processingStage.step = "synthesis"

(* C17: the controller enforces a non-decreasing percent where it writes:
   a write of a percent lower than the current one is rejected and the
   stored percent is not lowered. *)
C17_LowerWriteRejected ==
    [][processingStage'.progress >= processingStage.progress]_vars

(* C18: at most one run is in flight: runAnalysis starts only while
   step = 'input', step is 'analyzing' from before the first suspension
   point until the run ends, and no runAnalysis call happens in between, so
   the processingStage writes of a run are never interleaved with another
   run's. *)
C18_SingleRunInFlight ==
    /\ [](pc # "idle" <=> step = "analyzing")
    /\ [][lastEvent' = "runAnalysis" =>
             /\ step = "input" /\ pc = "idle"
             /\ step' = "analyzing" /\ pc' # "idle"]_vars
    /\ [][pc # "idle" =>
             /\ lastEvent' \notin {"runAnalysis", "validationError"}
             /\ Len(psTrace') >= Len(psTrace)
             /\ SubSeq(psTrace', 1, Len(psTrace)) = psTrace
             /\ runData' = runData]_vars

\* a run is in flight at its third suspension point
C18_Witness ==
    /\ step = "analyzing"
    /\ pc = "awaitRetriever"
    /\ pending = {"retrieveSimilarCases"}

(* C19: a started run terminates: when every awaited call settles, the run
   leaves 'analyzing' and is Done or Failed; and it cannot be aborted from
   outside: no user handler runs while step = 'analyzing', and the only
   steps that leave 'analyzing' are the run's completion and its fatal
   failure. *)
C19_RunTerminates ==
    /\ (step = "analyzing") ~> (Done \/ Failed)
    /\ [][step = "analyzing" =>
             lastEvent' \notin {"handleInputChange", "handleFileChange", "reset",
                                "runAnalysis", "validationError"}]_vars
    /\ [][(step = "analyzing" /\ step' # "analyzing") =>
             /\ lastEvent' \in {"runDone", "runFailed"}
             /\ Done' \/ Failed']_vars

\* a run that went through every stage has ended Done
C19_Witness ==
    /\ lastEvent = "runDone"
    /\ Done
    /\ Len(events) = IF hasImages(runData) THEN 8 ELSE 6

(* C20: addLog(msg) puts msg last and evicts only the oldest entries: the new
   log is the last 3 entries of the previous log, in their order, followed
   by msg; a previous log of fewer than 4 entries loses nothing. *)
C20_AddLogAppendsNewest ==
    /\ \A i \in 1..(Len(psTrace) - 1) :
          LET old == psTrace[i].log
              new == psTrace[i + 1].log
              kept == IF Len(old) < 4 THEN Len(old) ELSE 3
          IN  new # old =>
                 /\ Len(new) = kept + 1
                 /\ \A j \in 1..kept : new[j] = old[Len(old) - kept + j]
                 /\ Len(old) < 4 => \A j \in 1..Len(old) : new[j] = old[j]
                 /\ Len(old) = 4 => \A j \in 1..3 : new[j] = old[j + 1]
    /\ lastEvent = "synthesizerResolved" =>
          processingStage.log =
             <<(<<"> Querying dense vector embeddings...">>),
               (<<"> Retrieval complete: ", ToString(Len(similarCases)),
                  " candidates found.">>),
               (<<"> Gemini 3 Pro: Reasoning context window active...">>),
               (<<"> Output generated successfully.">>)>>
    /\ lastEvent = "runAnalysis" =>
          processingStage.log[Len(processingStage.log)] \in
             {<<"> ResNet-50: Loading weights...">>,
              <<"> No image data provided. Bypassing vision stack.">>}

\* an addLog on a full log has evicted the oldest entry
C20_Witness ==
    \E i \in 1..(Len(psTrace) - 1) :
       /\ Len(psTrace[i].log) = 4
       /\ psTrace[i + 1].log # psTrace[i].log
       /\ psTrace[i + 1].log[1] = psTrace[i].log[2]

----------------------------------------------------------------------------
(* C21: for every non-empty registry and every query, rank succeeds and
   returns at most 5 cases, each with a relevanceScore in [0,100], in order
   of non-increasing score, and any two neighbours of equal score are in
   strictly increasing order of id. *)
C21_RankOrderedTopK ==
    (~IsNull(vectorDb.outcome) /\ vectorDb.registry # <<>>) =>
        LET out == vectorDb.outcome[1]
            cs == out.cases
        IN  /\ out.ok
            /\ Len(cs) <= 5
            /\ \A i \in 1..Len(cs) :
                   cs[i].relevanceScore >= 0 /\ cs[i].relevanceScore <= 100
            /\ \A i \in 1..(Len(cs) - 1) :
                   /\ cs[i].relevanceScore >= cs[i + 1].relevanceScore
                   /\ cs[i].relevanceScore = cs[i + 1].relevanceScore
                          => cs[i].id < cs[i + 1].id

\* more than 5 cases in the registry, 5 returned, the first two tied at a
\* score that the clamp cut to 100
C21_Witness ==
    /\ Len(vectorDb.registry) > 5
    /\ ~IsNull(vectorDb.outcome)
    /\ vectorDb.outcome[1].ok
    /\ Len(vectorDb.outcome[1].cases) = 5
    /\ vectorDb.outcome[1].cases[1].relevanceScore = 100
    /\ vectorDb.outcome[1].cases[2].relevanceScore = 100
    /\ vectorDb.outcome[1].cases[5].relevanceScore
           < vectorDb.outcome[1].cases[1].relevanceScore

(* C22: ranking against an empty registry fails with EmptyRegistryError, and
   when the retriever rejects with that error the run ends Failed with the
   error's message while processingStage still shows the retrieval stage,
   and the synthesizer is never called. *)
C22_EmptyRegistryFatal ==
    /\ \A q \in RetrieverQueries :
          rank(q, <<>>) =
              [ok |-> FALSE, cases |-> <<>>, error |-> EmptyRegistryError]
    /\ \A i \in 1..Len(events) :
          (/\ events[i].ev = "reject"
           /\ events[i].fn = "retrieveSimilarCases"
           /\ events[i].args[1] = EmptyRegistryError)
             => /\ i = Len(events)
                /\ ~ Happened("call", "analyzePatientCase")
                /\ pc = "idle" /\ pending = {}
                /\ step = "input" /\ ~ IsNull(error) /\ IsNull(analysisResult)
                /\ processingStage.step = "retrieval"
                /\ psTrace[Len(psTrace)].step = "retrieval"
                /\ lastEvent = "runFailed"
                      => error = Some(EmptyRegistryError.message)

\* the retriever has just rejected with EmptyRegistryError
C22_Witness ==
    /\ lastEvent = "runFailed"
    /\ RunFailedAt("retrieveSimilarCases")
    /\ LastSettlement.args[1] = EmptyRegistryError
    /\ error = Some(<<"EmptyRegistryError">>)
    /\ processingStage.step = "retrieval"

(* C23: when a collaborator is called, processingStage has entered that
   collaborator's stage and the log has received an entry since the stage
   was entered; and the continuation that sees a collaborator resolve writes
   a further log entry while processingStage still shows that collaborator's
   stage, before any later stage is entered. *)
C23_LogAroundEveryCall ==
    /\ [](\A fn \in pending :
            \E e \in 1..Len(psTrace) :
               /\ psTrace[e].step = StageOf(fn)
               /\ \A k \in e..Len(psTrace) : psTrace[k].step = StageOf(fn)
               /\ \E j \in (e + 1)..Len(psTrace) :
                     psTrace[j].log # psTrace[j - 1].log)
    /\ [][\A fn \in pending :
             (/\ Len(events') > Len(events)
              /\ events'[Len(events) + 1].ev = "resolve"
              /\ events'[Len(events) + 1].fn = fn)
             => \E j \in (Len(psTrace) + 1)..Len(psTrace') :
                   /\ psTrace'[j].log # psTrace'[j - 1].log
                   /\ \A k \in (Len(psTrace) + 1)..j :
                         psTrace'[k].step = StageOf(fn)]_vars

\* all four collaborators were called and have resolved
C23_Witness ==
    /\ lastEvent = "synthesizerResolved"
    /\ \A i \in 1..4 : /\ Happened("call", Collaborators[i])
                       /\ Happened("resolve", Collaborators[i])
    /\ Len(psTrace) > 4

(* C24: analysisResult changes only in two ways: the completing run sets it,
   from null, to the report the synthesizer resolved with, and reset sets it
   to null.  Hence it is null right after reset, when a run starts and as
   long as a run is in flight. *)
C24_ResultLifecycle ==
    /\ [][analysisResult' # analysisResult =>
            \/ /\ lastEvent' = "runDone"
               /\ IsNull(analysisResult)
               /\ LastSettlement.ev = "resolve"
               /\ LastSettlement.fn = "analyzePatientCase"
               /\ analysisResult' = Some(LastSettlement.args[1])
            \/ /\ lastEvent' = "reset"
               /\ IsNull(analysisResult')]_vars
    /\ [](lastEvent \in {"reset", "runAnalysis"} => IsNull(analysisResult))
    /\ [](pc # "idle" => IsNull(analysisResult))

\* the user has started a new case after a completed run
C24_Witness ==
    /\ lastEvent = "reset"
    /\ IsNull(analysisResult)
    /\ ~ IsNull(result)
    /\ Happened("resolve", "analyzePatientCase")

(* C25: every query handed to the retriever holds a token that is not white
   space; and for the patient data of any state that passes validation, the
   query built from it holds such a token whatever the vision stage yields:
   a label, a white-space label or no label (the last being the only
   outcome without an image). *)
C25_QueryNeverBlank ==
    /\ \A q \in RetrieverQueries : \E i \in 1..Len(q) : q[i] # " "
    /\ Valid(patientData) =>
          \A anatomy \in AnatomyLabels \cup {<<" ">>} :
             (hasImages(patientData) \/ anatomy = EmptyText) =>
                LET q == BuildQuery(patientData, anatomy)
                IN  \E i \in 1..Len(q) : q[i] # " "

\* white-space symptoms with an image whose classification failed: the
\* retriever received the default phrase
C25_Witness ==
    /\ Happened("reject", "identifyAnatomyFromImage")
    /\ runData.symptoms = <<" ">>
    /\ RetrieverQueries = {DefaultQuery}
    /\ pc = "awaitRetriever"

(* C26: in every state, whatever runs, validation failures and resets came
   before, error is null unless step is 'input'; the step that starts a run
   leaves error null even when the state before held an error. *)
C26_ErrorOnlyOnInput ==
    /\ [](step # "input" => IsNull(error))
    /\ [][lastEvent' = "runAnalysis" => (IsNull(error') /\ step' = "analyzing")]_vars
    /\ [][(~ IsNull(error) /\ step' # "input") => lastEvent' = "runAnalysis"]_vars

\* a run has completed and its results are shown without an error
C26_Witness ==
    /\ step = "results"
    /\ IsNull(error)
    /\ ~ IsNull(analysisResult)
    /\ lastEvent = "runDone"

(* C27: the first write of every run that passes validation sets
   processingStage to stage vision, progress 5 and a log holding the init
   entry only, so processingStage right after the start of a run depends on
   nothing but whether the run has images; reset and a validation failure
   leave processingStage unchanged. *)
C27_FreshProgressPerRun ==
    /\ [](Len(psTrace) > 0 =>
            psTrace[1] = [step |-> "vision",
                          label |-> <<"Booting Neural Engines...">>,
                          progress |-> 5,
                          log |-> <<(<<"> System init sequence started...">>)>>])
    /\ [][lastEvent' = "runAnalysis" =>
            processingStage' =
               IF Len(patientData.images) > 0
               THEN [step |-> "vision",
                     label |-> <<"Analyzing Visual Structures">>,
                     progress |-> 15,
                     log |-> <<(<<"> System init sequence started...">>),
                               (<<"> ResNet-50: Loading weights...">>)>>]
               ELSE [step |-> "vision",
                     label |-> <<"Skipping Vision Layer">>,
                     progress |-> 30,
                     log |-> <<(<<"> System init sequence started...">>),
                               (<<"> No image data provided. Bypassing vision stack.">>)>>]]_vars
    /\ [][lastEvent' \in {"reset", "validationError"} =>
            (processingStage' = processingStage /\ psTrace' = psTrace)]_vars

\* the form was rejected after a completed run and a reset: processingStage
\* still shows the end of that run
C27_Witness ==
    /\ lastEvent = "validationError"
    /\ processingStage.progress = 100
    /\ processingStage.step = "synthesis"
    /\ Len(processingStage.log) = 4
====
